---- MODULE Spec2Model ----
(***************************************************************************)
(* generic-webdriver-server: the protocol dispatcher (apiWrapper and the   *)
(* routes of GenericWebDriverServer) and the single-session lifecycle      *)
(* manager (GenericSingleSessionWebDriverServer), as an event-loop state   *)
(* machine.  One action is one run of JavaScript between two suspension    *)
(* points: a handler from its start to its first pending await (or to its  *)
(* reply), the continuation after an awaited operation completes, a timer  *)
(* callback.  Awaits on already-settled promises resume in the microtask   *)
(* queue, before any other request or timer, and are part of the same      *)
(* action.                                                                 *)
(***************************************************************************)
EXTENDS Naturals, FiniteSets, Bags

\* ---------------------------------------------------------------- bounds

\* Number of sessions the server creates in one run (session ids 1..MaxSessions).
MaxSessions == 2

\* Number of requests that may be suspended at an await at the same time.
MaxReq == 2

\* flags.idleTimeoutSeconds * MILLISECONDS_PER_SECOND, in clock ticks.
IdleTimeout == 2

\* ------------------------------------------------------------ value sets

\* this.sessionId_ = '' (no active session).
Empty == 0

\* Session ids.  randomBytes(16).toString('hex') is modelled as an opaque
\* token that was never drawn before (128 random bits): the k-th id is k.
Ids == 1..MaxSessions

\* A session id no createSession() ever returned, as a client may send it.
Bogus == MaxSessions + 1

\* this.timeout_ = null.
Null == 0

\* Timeout objects returned by setTimeout: the timer armed by the
\* createSession() call that drew id s is handle s.
Handles == 1..MaxSessions

\* ------------------------------------------------------- Response Model

GenericWebDriverResponse(value, httpStatusCode) ==
  [value |-> value, httpStatusCode |-> httpStatusCode]

Success(value) == GenericWebDriverResponse(value, 200)

SessionNotCreatedError ==
  GenericWebDriverResponse([error |-> "session not created"], 500)

\* Fault variant of UnknownCommandError: the generic error is sent instead.
UnknownCommandError_Generic ==
  GenericWebDriverResponse([error |-> "unknown error"], 500)

UnknownCommandError ==
  GenericWebDriverResponse([error |-> "unknown command"], 404)

InvalidArgumentError ==
  GenericWebDriverResponse([error |-> "invalid argument"], 400)

InvalidSessionIdError ==
  GenericWebDriverResponse([error |-> "invalid session id"], 404)

UnableToCaptureScreenError ==
  GenericWebDriverResponse([error |-> "unable to capture screen"], 500)

UnknownError ==
  GenericWebDriverResponse([error |-> "unknown error"], 500)

\* The JSON object {}.
EmptyObject == [object |-> "{}"]

\* What a handler (or a hook) did: returned a value, threw a
\* GenericWebDriverResponse, or threw anything else.
Returned(response) == [how |-> "return", isResponse |-> TRUE, response |-> response]
ThrewResponse(response) == [how |-> "throw", isResponse |-> TRUE, response |-> response]
ThrewError == [how |-> "throw", isResponse |-> FALSE, response |-> [error |-> "Error"]]

\* ----------------------------------------------------------------- state

VARIABLES
  sessionId_,   \* this.sessionId_: Empty or the active session's id
  timeout_,     \* this.timeout_: Null or the handle of the idle timer
  timers,       \* the Timeout objects setTimeout has returned, by handle
  closeHook,    \* per session id: the closeSingleSession() call made for it
  idle,         \* ticks since the active session was created or last used
  used,         \* an accepted navigateTo or getTitle has used the active session
  req,          \* the handlers suspended at an await, a bag
  reply,        \* the reply apiWrapper wrote in the last step, if it wrote one
  settled,      \* how the await the last step resumed from settled, if it resumed
  listening,    \* this.server is accepting connections
  deleted       \* the sessions a DELETE request closed and was answered 200 for

vars ==
  <<sessionId_, timeout_, timers, closeHook, idle, used, req, reply, settled, listening, deleted>>

\* An incoming request: its route, its :sessionId parameter (Empty when the
\* route has none) and whether its JSON body carries a url.
Request(route, sessionId, url) ==
  [route |-> route, sessionId |-> sessionId, url |-> url]

NoRequest == Request("none", Empty, FALSE)

\* A handler suspended at "await pc(...)", and the request it serves.
Suspended(pc, request) == [pc |-> pc, request |-> request]

\* The handlers suspended at an await of pc.
Awaiting(pc) == {h \in BagToSet(req) : h.pc = pc}

\* One more handler may suspend.
HasFreeSlot == BagCardinality(req) < MaxReq

Suspend(h) == req (+) SetToBag({h})

Resume(h) == req (-) SetToBag({h})

\* The last step wrote no reply.
NoReply == [request |-> NoRequest, status |-> 0, body |-> [value |-> EmptyObject]]

UnusedTimer == [state |-> "unused", remaining |-> 0]

\* closeSingleSession() for a session: not called; called by the
\* closeSession() that by made ("request", "timeout" or "shutdown") and not
\* settled yet; settled.
NotCalled == [state |-> "none", by |-> "none"]
Running(by) == [state |-> "running", by |-> by]
Settled == [state |-> "settled", by |-> "none"]

Init ==
  /\ sessionId_ = Empty
  /\ timeout_ = Null
  /\ timers = [h \in Handles |-> UnusedTimer]
  /\ closeHook = [s \in Ids |-> NotCalled]
  /\ idle = 0
  /\ used = FALSE
  /\ req = EmptyBag
  /\ reply = NoReply
  /\ settled = "none"
  /\ listening = TRUE
  /\ deleted = {}

\* ------------------------------------------------------------ apiWrapper

\* Fault variant of WrapResponse: the catch block does not test what was
\* thrown.
WrapResponse_NoInstanceOf(outcome) ==
  IF outcome.how = "return" THEN outcome.response ELSE UnknownError

\* The response apiWrapper settles on for what the handler did.
WrapResponse(outcome) ==
  IF outcome.how = "return" THEN outcome.response
  ELSE IF outcome.isResponse THEN outcome.response
  ELSE UnknownError

\* Fault variant of ApiWrapper: no catch for what is not a response, so the
\* error leaves the wrapper and nothing is written.
ApiWrapper_NoCatch(request, outcome) ==
  IF outcome.how = "throw" /\ ~outcome.isResponse
  THEN NoReply
  ELSE [request |-> request,
        status |-> outcome.response.httpStatusCode,
        body |-> [value |-> outcome.response.value]]

\* expressResponse.status(...); expressResponse.json({value: ...}).
ApiWrapper(request, outcome) ==
  [request |-> request,
   status |-> WrapResponse(outcome).httpStatusCode,
   body |-> [value |-> WrapResponse(outcome).value]]

\* "await x; return new R(...)": the handler returns response unless the
\* awaited call threw, which propagates.
Then(outcome, response) ==
  IF outcome.how = "return" THEN Returned(response) ELSE outcome

\* ----------------------------------------------------------------- timers

SetTimeout(tm, h) == [tm EXCEPT ![h] = [state |-> "armed", remaining |-> IdleTimeout]]

\* A timer that is not pending: its callback has run, or it was cleared.
Inactive == [state |-> "inactive", remaining |-> 0]

ClearTimeout(tm, h) ==
  IF h # Null /\ tm[h].state = "armed" THEN [tm EXCEPT ![h] = Inactive] ELSE tm

\* Timeout.refresh() on a pending timer: restart it with its original delay.
Refresh(tm, h) ==
  IF tm[h].state = "armed" THEN SetTimeout(tm, h) ELSE tm

\* The timer's callback is being run: the timer is no longer pending.
Fired(tm, h) == [tm EXCEPT ![h] = Inactive]

\* ------------------------------------- GenericSingleSessionWebDriverServer

\* Fault variant of Ready: the server always claims to be ready.
Ready_Always == TRUE

\* ready(): there is no active session.
Ready == sessionId_ = Empty

\* Fault variant of CreateSessionRefuses: the test is missing.
CreateSessionRefuses_Never == FALSE

\* createSession(): "if (this.sessionId_)" - there is an active session
\* already, so null is returned.
CreateSessionRefuses == sessionId_ # Empty

\* Fault variant of NavigateToRejects: the ids are not compared.
NavigateToRejects_NoIdCheck(sessionId) == sessionId_ = Empty

\* navigateTo(): "if (!this.sessionId_ || sessionId != this.sessionId_)".
NavigateToRejects(sessionId) == sessionId_ = Empty \/ sessionId # sessionId_

\* Fault variant of GetTitleRejects: the ids are not compared.
GetTitleRejects_NoIdCheck(sessionId) == sessionId_ = Empty

\* getTitle(): the same test.
GetTitleRejects(sessionId) == sessionId_ = Empty \/ sessionId # sessionId_

\* Fault variant of CloseSessionIgnores: the ids are not compared.
CloseSessionIgnores_NoIdCheck(sessionId) == sessionId_ = Empty

\* closeSession(): the same test; the call returns without doing anything.
CloseSessionIgnores(sessionId) == sessionId_ = Empty \/ sessionId # sessionId_

\* Fault variant of CallbackSessionId: the id is read when the timer is
\* armed, before this.sessionId_ is assigned.
CallbackSessionId_Stale == Empty

\* The argument the timer callback passes to closeSession(): this.sessionId_
\* as it is when the callback runs.
CallbackSessionId == sessionId_

\* Fault variant of CloseSessionCatch: the error is thrown again.
CloseSessionCatch_Rethrow(outcome) == outcome

\* closeSession()'s try/catch around "await this.closeSingleSession()": the
\* error is logged and the call returns normally whatever the hook did.
CloseSessionCatch(outcome) == Returned(EmptyObject)

\* The id randomBytes() yields: one that was never drawn before.
FreshId ==
  CHOOSE s \in Ids : timers[s].state = "unused" /\ \A u \in Ids : u < s => timers[u].state # "unused"

\* A POST /session handler suspended in createSession() at "await randomBytes(...)".
CreateHandler == Suspended("randomBytes", Request("newSession", Empty, FALSE))

\* createSession() calls that passed the test and wait for randomBytes().
PendingCreates == CopiesIn(CreateHandler, req)

\* Ids not drawn yet and not spoken for by a pending createSession().
IdsLeft ==
  Cardinality({s \in Ids : timers[s].state = "unused"}) > PendingCreates

\* Fault variant of CloseSession: the timer is cancelled but this.timeout_
\* keeps the handle.
CloseSession_KeepsHandle(sessionId, by, tm) ==
  IF CloseSessionIgnores(sessionId)
  THEN /\ timers' = tm
       /\ UNCHANGED <<sessionId_, timeout_, closeHook, idle, used>>
  ELSE /\ sessionId_' = Empty
       /\ timers' = ClearTimeout(tm, timeout_)
       /\ timeout_' = timeout_
       /\ closeHook' = [closeHook EXCEPT ![sessionId] = Running(by)]
       /\ idle' = 0
       /\ used' = FALSE

\* closeSession(sessionId), from its start to "await this.closeSingleSession()":
\* the hook has been called and is running when the call suspends.  tm is the
\* timer table as the caller leaves it; by names the caller.
CloseSession(sessionId, by, tm) ==
  IF CloseSessionIgnores(sessionId)
  THEN /\ timers' = tm
       /\ UNCHANGED <<sessionId_, timeout_, closeHook, idle, used>>
  ELSE /\ sessionId_' = Empty
       /\ timers' = ClearTimeout(tm, timeout_)
       /\ timeout_' = Null
       /\ closeHook' = [closeHook EXCEPT ![sessionId] = Running(by)]
       /\ idle' = 0
       /\ used' = FALSE

\* Fault variant of TurnStarts: the server handles one request at a time and
\* waits for its navigation hook before it runs anything else.
TurnStarts_Blocking == reply = NoReply /\ Awaiting("navigateToSingleSession") = {}

\* The event loop runs one callback at a time, to its end: a request
\* handler, the continuation of a settled await, or a timer callback.  The
\* reply a callback wrote is on the wire before the next one runs.
TurnStarts == reply = NoReply

\* ------------------------------------------------------------------ routes

\* Every session id a request may carry.
AllArgIds == Ids \cup {Bogus}

\* DELETE /session/:sessionId/window and DELETE /session/:sessionId.
CloseRoutes == {"closeWindow", "deleteSession"}

\* The :sessionId path parameter of a request: an id some POST /session has
\* returned, or one that none has.
ArgIds == {s \in Ids : timers[s].state # "unused"} \cup {Bogus}

\* GET /status
GetStatus ==
  /\ TurnStarts
  /\ UNCHANGED deleted
  /\ listening
  /\ settled' = "none"
  /\ reply' = ApiWrapper(Request("status", Empty, FALSE),
                Returned(Success([ready |-> Ready, message |-> IF Ready THEN "ok" ELSE "busy"])))
  /\ UNCHANGED <<sessionId_, timeout_, timers, closeHook, idle, used, req, listening>>

\* POST /session handler: what it returns for createSession()'s result.
NewSessionHandler(sessionId) ==
  IF sessionId = Empty THEN Returned(SessionNotCreatedError)
  ELSE Returned(Success([sessionId |-> sessionId, capabilities |-> EmptyObject]))

\* POST /session, up to "await randomBytes(...)".
PostSession ==
  /\ TurnStarts
  /\ UNCHANGED deleted
  /\ listening
  /\ IF CreateSessionRefuses
     THEN /\ reply' = ApiWrapper(Request("newSession", Empty, FALSE), NewSessionHandler(Empty))
          /\ settled' = "none"
          /\ UNCHANGED <<sessionId_, timeout_, timers, closeHook, idle, used, req, listening>>
     ELSE /\ HasFreeSlot
          /\ IdsLeft
          /\ req' = Suspend(CreateHandler)
          /\ settled' = "none"
          /\ reply' = NoReply
          /\ UNCHANGED <<sessionId_, timeout_, timers, closeHook, idle, used, listening>>

\* createSession() after randomBytes() resolved: store the id, arm the idle
\* timer, return the id; the handler replies.
RandomBytesDone ==
  /\ TurnStarts
  /\ UNCHANGED deleted
  /\ CreateHandler \in Awaiting("randomBytes")
  /\ sessionId_' = FreshId
  /\ timers' = SetTimeout(timers, FreshId)
  /\ timeout_' = FreshId
  /\ idle' = 0
  /\ used' = FALSE
  /\ settled' = "return"
  /\ reply' = ApiWrapper(CreateHandler.request, NewSessionHandler(FreshId))
  /\ req' = Resume(CreateHandler)
  /\ UNCHANGED <<closeHook, listening>>

\* A POST /session/:sessionId/url handler suspended in navigateTo() at
\* "await this.navigateToSingleSession(url)".
NavigateHandler(sessionId) ==
  Suspended("navigateToSingleSession", Request("navigate", sessionId, TRUE))

\* Fault variant of UrlMissing: the body is not looked at.
UrlMissing_Never(url) == FALSE

\* POST /session/:sessionId/url handler: "if (!body.url)".
UrlMissing(url) == ~url

\* POST /session/:sessionId/url, up to "await this.navigateToSingleSession(url)".
PostUrl(sessionId, url) ==
  /\ TurnStarts
  /\ UNCHANGED deleted
  /\ sessionId \in ArgIds
  /\ listening
  /\ IF UrlMissing(url)
     THEN /\ reply' = ApiWrapper(Request("navigate", sessionId, url), Returned(InvalidArgumentError))
          /\ settled' = "none"
          /\ UNCHANGED <<sessionId_, timeout_, timers, closeHook, idle, used, req, listening>>
     ELSE IF NavigateToRejects(sessionId)
     THEN /\ reply' = ApiWrapper(Request("navigate", sessionId, url), ThrewResponse(InvalidSessionIdError))
          /\ settled' = "none"
          /\ UNCHANGED <<sessionId_, timeout_, timers, closeHook, idle, used, req, listening>>
     ELSE IF timeout_ = Null
     THEN \* null.refresh() is a TypeError
          /\ settled' = "none"
          /\ reply' = ApiWrapper(Request("navigate", sessionId, url), ThrewError)
          /\ UNCHANGED <<sessionId_, timeout_, timers, closeHook, idle, used, req, listening>>
     ELSE /\ HasFreeSlot
          /\ timers' = Refresh(timers, timeout_)
          /\ idle' = 0
          /\ used' = TRUE
          /\ req' = Suspend(NavigateHandler(sessionId))
          /\ settled' = "none"
          /\ reply' = NoReply
          /\ UNCHANGED <<sessionId_, timeout_, closeHook, listening>>

\* What a backend's navigateToSingleSession() may do once it settles.
NavigateOutcomes == {Returned(EmptyObject), ThrewResponse(InvalidSessionIdError), ThrewError}

\* navigateToSingleSession() settled: navigateTo() and the handler finish.
NavigateHookDone(sessionId, outcome) ==
  /\ TurnStarts
  /\ UNCHANGED deleted
  /\ NavigateHandler(sessionId) \in Awaiting("navigateToSingleSession")
  /\ settled' = outcome.how
  /\ reply' = ApiWrapper(NavigateHandler(sessionId).request, Then(outcome, Success(EmptyObject)))
  /\ req' = Resume(NavigateHandler(sessionId))
  /\ UNCHANGED <<sessionId_, timeout_, timers, closeHook, idle, used, listening>>

\* GET /session/:sessionId/screenshot: screenshot() is not overridden.
GetScreenshot(sessionId) ==
  /\ TurnStarts
  /\ UNCHANGED deleted
  /\ sessionId \in ArgIds
  /\ listening
  /\ settled' = "none"
  /\ reply' = ApiWrapper(Request("screenshot", sessionId, FALSE), ThrewResponse(UnableToCaptureScreenError))
  /\ UNCHANGED <<sessionId_, timeout_, timers, closeHook, idle, used, req, listening>>

\* GET /session/:sessionId/title
GetTitle(sessionId) ==
  /\ TurnStarts
  /\ UNCHANGED deleted
  /\ sessionId \in ArgIds
  /\ listening
  /\ IF GetTitleRejects(sessionId)
     THEN /\ reply' = ApiWrapper(Request("title", sessionId, FALSE), ThrewResponse(InvalidSessionIdError))
          /\ settled' = "none"
          /\ UNCHANGED <<sessionId_, timeout_, timers, closeHook, idle, used, req, listening>>
     ELSE IF timeout_ = Null
     THEN /\ reply' = ApiWrapper(Request("title", sessionId, FALSE), ThrewError)
          /\ settled' = "none"
          /\ UNCHANGED <<sessionId_, timeout_, timers, closeHook, idle, used, req, listening>>
     ELSE /\ timers' = Refresh(timers, timeout_)
          /\ idle' = 0
          /\ used' = TRUE
          /\ settled' = "none"
          /\ reply' = ApiWrapper(Request("title", sessionId, FALSE),
                        Returned(Success([string |-> "Title of the page"])))
          /\ UNCHANGED <<sessionId_, timeout_, closeHook, req, listening>>

\* DELETE /session/:sessionId/window and DELETE /session/:sessionId, up to
\* "await this.closeSingleSession()".
DeleteSession(route, sessionId) ==
  /\ TurnStarts
  /\ sessionId \in ArgIds
  /\ listening
  /\ IF CloseSessionIgnores(sessionId)
     THEN /\ reply' = ApiWrapper(Request(route, sessionId, FALSE), Returned(Success(EmptyObject)))
          /\ settled' = "none"
          /\ CloseSession(sessionId, "request", timers)
          /\ UNCHANGED <<req, listening, deleted>>
     ELSE /\ HasFreeSlot
          /\ CloseSession(sessionId, "request", timers)
          /\ UNCHANGED deleted
          /\ req' = Suspend(Suspended("closeSingleSession", Request(route, sessionId, FALSE)))
          /\ settled' = "none"
          /\ reply' = NoReply
          /\ UNCHANGED listening

\* What a backend's closeSingleSession() or shutdownSingleSession() may do.
HookOutcomes == {Returned(EmptyObject), ThrewError}

\* The request whose handler awaits the closeSession() call that released s.
CloseWaiters(s) == {h \in Awaiting("closeSingleSession") : h.request.sessionId = s}

\* closeSingleSession() settled for session s: closeSession() finishes, and
\* so does the DELETE handler when it is the caller (the timer callback and
\* shutdown() do not wait for the call).
CloseHookDone(s, outcome) ==
  /\ TurnStarts
  /\ closeHook[s].state = "running"
  /\ closeHook' = [closeHook EXCEPT ![s] = Settled]
  /\ IF CloseWaiters(s) # {}
     THEN LET h == CHOOSE w \in CloseWaiters(s) : TRUE
          IN /\ settled' = outcome.how
             /\ reply' = ApiWrapper(h.request, Then(CloseSessionCatch(outcome), Success(EmptyObject)))
             /\ req' = Resume(h)
             /\ deleted' = IF reply'.status = 200 THEN deleted \cup {s} ELSE deleted
     ELSE /\ settled' = outcome.how
          /\ reply' = NoReply
          /\ UNCHANGED <<req, deleted>>
  /\ UNCHANGED <<sessionId_, timeout_, timers, idle, used, listening>>

\* A GET /shutdown handler suspended in shutdown() at
\* "await this.shutdownSingleSession()".
ShutdownHandler == Suspended("shutdownSingleSession", Request("shutdown", Empty, FALSE))

\* GET /shutdown, up to "await this.shutdownSingleSession()": closeSession()
\* is called and not awaited.
GetShutdown ==
  /\ TurnStarts
  /\ UNCHANGED deleted
  /\ listening
  /\ HasFreeSlot
  /\ IF sessionId_ # Empty
     THEN CloseSession(sessionId_, "shutdown", timers)
     ELSE UNCHANGED <<sessionId_, timeout_, timers, closeHook, idle, used>>
  /\ req' = Suspend(ShutdownHandler)
  /\ settled' = "none"
  /\ reply' = NoReply
  /\ UNCHANGED listening

\* shutdownSingleSession() settled: shutdown() finishes; the handler closes
\* the listener and replies, unless the hook threw.
ShutdownHookDone(outcome) ==
  /\ TurnStarts
  /\ UNCHANGED deleted
  /\ ShutdownHandler \in Awaiting("shutdownSingleSession")
  /\ listening' = IF outcome.how = "return" THEN FALSE ELSE listening
  /\ settled' = outcome.how
  /\ reply' = ApiWrapper(ShutdownHandler.request, Then(outcome, Success(EmptyObject)))
  /\ req' = Resume(ShutdownHandler)
  /\ UNCHANGED <<sessionId_, timeout_, timers, closeHook, idle, used>>

\* The catch-all route.
UnknownRoute ==
  /\ TurnStarts
  /\ UNCHANGED deleted
  /\ listening
  /\ settled' = "none"
  /\ reply' = ApiWrapper(Request("other", Empty, FALSE), Returned(UnknownCommandError))
  /\ UNCHANGED <<sessionId_, timeout_, timers, closeHook, idle, used, req, listening>>

\* ----------------------------------------------------------- timers, time

\* The idle timer's callback, run once the timer has expired:
\* closeSession(this.sessionId_), not awaited.
TimerCallback(h) ==
  /\ timers[h].state = "armed"
  /\ UNCHANGED deleted
  /\ timers[h].remaining = 0
  /\ CloseSession(CallbackSessionId, "timeout", Fired(timers, h))
  /\ settled' = "none"
  /\ reply' = NoReply
  /\ UNCHANGED <<req, listening>>

\* The event loop runs the callback of an expired timer.
TimerFire(h) == TurnStarts /\ TimerCallback(h)

Min(a, b) == IF a < b THEN a ELSE b

\* One unit of time passes.
Tick ==
  /\ TurnStarts
  /\ UNCHANGED deleted
  /\ \/ \E h \in Handles : timers[h].state = "armed" /\ timers[h].remaining > 0
     \/ sessionId_ # Empty /\ idle < IdleTimeout
  /\ timers' = [h \in Handles |->
                  IF timers[h].state = "armed" /\ timers[h].remaining > 0
                  THEN [timers[h] EXCEPT !.remaining = @ - 1]
                  ELSE timers[h]]
  /\ idle' = IF sessionId_ # Empty THEN Min(idle + 1, IdleTimeout) ELSE idle
  /\ used' = used
  /\ settled' = "none"
  /\ reply' = NoReply
  /\ UNCHANGED <<sessionId_, timeout_, closeHook, req, listening>>

\* The reply of the last step has left for the client.
ReplySent ==
  /\ reply # NoReply
  /\ UNCHANGED deleted
  /\ settled' = "none"
  /\ reply' = NoReply
  /\ UNCHANGED <<sessionId_, timeout_, timers, closeHook, idle, used, req, listening>>

Next ==
  \/ GetStatus
  \/ GetShutdown
  \/ PostSession
  \/ RandomBytesDone
  \/ \E sessionId \in AllArgIds, url \in BOOLEAN : PostUrl(sessionId, url)
  \/ \E sessionId \in Ids, outcome \in NavigateOutcomes : NavigateHookDone(sessionId, outcome)
  \/ \E sessionId \in AllArgIds : GetScreenshot(sessionId)
  \/ \E sessionId \in AllArgIds : GetTitle(sessionId)
  \/ \E route \in CloseRoutes, sessionId \in AllArgIds : DeleteSession(route, sessionId)
  \/ \E s \in Ids, outcome \in HookOutcomes : CloseHookDone(s, outcome)
  \/ \E outcome \in HookOutcomes : ShutdownHookDone(outcome)
  \/ UnknownRoute
  \/ \E h \in Handles : TimerFire(h)
  \/ Tick
  \/ ReplySent

Spec == Init /\ [][Next]_vars

\* A reply written is sent, and the event loop reaches its timers phase on
\* every iteration: while some timer stays expired, a timer callback runs.
LiveSpec == Spec /\ WF_vars(ReplySent) /\ WF_vars(\E h \in Handles : TimerCallback(h))

\* ------------------------------------------------------------------ claims

\* The wire form of a response.
Wire(response) == [status |-> response.httpStatusCode, body |-> [value |-> response.value]]

\* Sessions whose id a successful createSession() returned and that no
\* closeSession() has released since.
Live == {s \in Ids : timers[s].state # "unused" /\ closeHook[s].state = "none"}

\* Handlers suspended at an await of pc, counted with multiplicity.
InFlight(pc) == BagCardinality([h \in Awaiting(pc) |-> req[h]])

\* Backend hook calls that have started and not settled.
HooksInFlight ==
  InFlight("navigateToSingleSession") + InFlight("shutdownSingleSession")
    + Cardinality({s \in Ids : closeHook[s].state = "running"})

\* C1: in every reachable state at most one session is live: no two ids were
\* each returned by a successful createSession() and not closed since.
C1_AtMostOneLiveSession == Cardinality(Live) <= 1

\* C2: a POST /session that arrives while a session is active is answered
\* SessionNotCreated (500), and leaves the active id, the timer handle, the
\* timers and the suspended handlers as they were.
C2_CreateWhileActiveRefused ==
  [][(PostSession /\ sessionId_ # Empty)
       => /\ reply'.status = 500
          /\ reply'.body = [value |-> [error |-> "session not created"]]
          /\ UNCHANGED <<sessionId_, timeout_, timers, req>>]_vars

\* A POST /session was just refused while a session is active, its timer armed.
C2_Witness ==
  /\ reply.request.route = "newSession"
  /\ reply.status = 500
  /\ sessionId_ # Empty
  /\ timeout_ # Null
  /\ timers[timeout_].state = "armed"

\* C3: the callback of the timer armed when session h was created closes no
\* session but h.
C3_TimerClosesOnlyItsSession ==
  [][\A h \in Handles : (TimerFire(h) /\ sessionId_ # Empty) => sessionId_ = h]_vars

\* C4: once the active session has gone a full idle timeout without an
\* accepted navigateTo or getTitle, it is eventually closed (unless such a
\* call restarts the clock before the timer's callback runs); and a
\* navigateTo carrying the id of a closed session is answered
\* InvalidSessionId (404).
C4_IdleSessionEvicted ==
  /\ \A s \in Ids : (sessionId_ = s /\ idle = IdleTimeout) ~> (sessionId_ # s \/ idle < IdleTimeout)
  /\ [][\A s \in Ids : (closeHook[s].state # "none" /\ PostUrl(s, TRUE))
          => /\ reply'.status = 404
             /\ reply'.body = [value |-> [error |-> "invalid session id"]]]_vars

\* The only session created so far was closed by its idle timer's callback
\* and the server is Idle.
C4_Witness ==
  \E s \in Ids :
    /\ closeHook[s] = Running("timeout")
    /\ sessionId_ = Empty
    /\ timers[s].state = "inactive"
    /\ \A u \in Ids \ {s} : timers[u].state = "unused"

\* C5: a timer callback never closes a session that an accepted navigateTo
\* or getTitle has used less than a full idle timeout ago.
C5_NoEvictionBeforeFullTimeout ==
  [][\A h \in Handles : (TimerFire(h) /\ sessionId_ # Empty /\ used) => idle >= IdleTimeout]_vars

\* C6: a DELETE whose id is not the active session's (or that arrives while
\* no session is active) is answered 200 {} and changes neither the active
\* id, the timer handle, the timers, the close hook calls nor the suspended
\* handlers.
C6_CloseOtherIdIsNoOp ==
  [][\A route \in CloseRoutes, sessionId \in AllArgIds :
       (DeleteSession(route, sessionId) /\ (sessionId_ = Empty \/ sessionId # sessionId_))
         => /\ reply'.status = 200
            /\ reply'.body = [value |-> EmptyObject]
            /\ UNCHANGED <<sessionId_, timeout_, timers, closeHook, req>>]_vars

\* A DELETE for an id no session ever had was just answered 200 while a
\* session is active, its timer armed.
C6_Witness ==
  /\ reply.request.route \in CloseRoutes
  /\ reply.request.sessionId = Bogus
  /\ reply.status = 200
  /\ sessionId_ # Empty
  /\ timeout_ = sessionId_
  /\ timers[timeout_].state = "armed"

\* C7 as stated: when the close hook throws under a DELETE for the active
\* id, the reply is 200 {} and the server is Idle when the request completes.
C7_IdleAfterCloseHookThrows ==
  [][\A s \in Ids : (CloseHookDone(s, ThrewError) /\ CloseWaiters(s) # {})
       => /\ reply'.status = 200
          /\ reply'.body = [value |-> EmptyObject]
          /\ sessionId_' = Empty
          /\ timeout_' = Null]_vars

\* C7 amended: a DELETE for the active id clears the session id and cancels
\* the timer before the close hook is called; when the hook throws, the
\* reply is still 200 {}, the closed session is not the active one, its
\* timer is not pending, and the throw changes neither the session id nor
\* the timer handle nor the timers.
C7_CloseNeverRaises ==
  [][/\ \A route \in CloseRoutes, s \in Ids :
          (DeleteSession(route, s) /\ s = sessionId_)
            => /\ sessionId_' = Empty
               /\ timeout_' = Null
               /\ timers'[s].state = "inactive"
               /\ closeHook'[s] = Running("request")
     /\ \A s \in Ids : (CloseHookDone(s, ThrewError) /\ CloseWaiters(s) # {})
          => /\ reply'.status = 200
             /\ reply'.body = [value |-> EmptyObject]
             /\ sessionId_' # s
             /\ timeout_' # s
             /\ timers'[s].state = "inactive"
             /\ UNCHANGED <<sessionId_, timeout_, timers>>]_vars

\* The close hook of a session just threw and its DELETE was answered 200.
C7_Witness ==
  /\ settled = "throw"
  /\ reply.request.route \in CloseRoutes
  /\ reply.request.sessionId \in Ids
  /\ reply.status = 200
  /\ closeHook[reply.request.sessionId] = Settled

\* C8: when GET /shutdown arrives while a session is active, the close hook
\* of that session has settled by the time the shutdown hook is called.
C8_CloseSettlesBeforeShutdownHook ==
  [][(GetShutdown /\ sessionId_ # Empty) => closeHook'[sessionId_] = Settled]_vars

\* C9: at most one backend hook call is in flight at any time.
C9_OneHookAtATime == HooksInFlight <= 1

\* C10: a navigateTo (with url) or getTitle carrying the active id is
\* accepted - the timer is rearmed with the full timeout, the navigation
\* hook is called, getTitle answers 200 - and every other one is answered
\* InvalidSessionId (404) with the timers and the suspended handlers
\* unchanged.
C10_AcceptedIffActiveId ==
  [][\A sessionId \in AllArgIds :
       /\ PostUrl(sessionId, TRUE)
            => IF sessionId_ # Empty /\ sessionId = sessionId_
               THEN /\ reply' = NoReply
                    /\ req' = req (+) SetToBag({[pc |-> "navigateToSingleSession",
                                                  request |-> Request("navigate", sessionId, TRUE)]})
                    /\ timers'[timeout_] = [state |-> "armed", remaining |-> IdleTimeout]
               ELSE /\ Wire(InvalidSessionIdError) = [status |-> reply'.status, body |-> reply'.body]
                    /\ UNCHANGED <<timers, req>>
       /\ GetTitle(sessionId)
            => IF sessionId_ # Empty /\ sessionId = sessionId_
               THEN /\ reply'.status = 200
                    /\ timers'[timeout_] = [state |-> "armed", remaining |-> IdleTimeout]
               ELSE /\ Wire(InvalidSessionIdError) = [status |-> reply'.status, body |-> reply'.body]
                    /\ UNCHANGED <<timers, req>>]_vars

\* A navigateTo carrying an id other than the active session's was just
\* rejected.
C10_Witness ==
  /\ reply.request.route = "navigate"
  /\ reply.request.url
  /\ settled = "none"
  /\ reply.status = 404
  /\ sessionId_ # Empty
  /\ reply.request.sessionId # sessionId_

\* C11: a POST /session/:sessionId/url whose body has no url is answered
\* InvalidArgument (400) for every id - the active one, another one, or any
\* while no session is active - and no handler suspends on the navigation
\* hook; the session, its timer and the timers are left as they were.
C11_NoUrlIsInvalidArgument ==
  [][\A sessionId \in AllArgIds :
       PostUrl(sessionId, FALSE)
         => /\ reply'.status = 400
            /\ reply'.body = [value |-> [error |-> "invalid argument"]]
            /\ UNCHANGED <<sessionId_, timeout_, timers, req>>]_vars

\* A navigate request without url that carried the active id was just
\* answered 400.
C11_Witness ==
  /\ reply.request.route = "navigate"
  /\ ~reply.request.url
  /\ reply.status = 400
  /\ sessionId_ # Empty
  /\ reply.request.sessionId = sessionId_

\* C12: once a DELETE request has closed session s and been answered 200,
\* every later getTitle and every later navigateTo (with url) carrying s is
\* answered InvalidSessionId (404), whatever requests came in between.
C12_ClosedIdStaysInvalid ==
  [][\A s \in Ids :
       (s \in deleted /\ (GetTitle(s) \/ PostUrl(s, TRUE)))
         => /\ reply'.status = 404
            /\ reply'.body = [value |-> [error |-> "invalid session id"]]]_vars

\* A getTitle carrying the id of a session closed by DELETE was just
\* answered 404 while a session created since then is active.
C12_Witness ==
  /\ reply.request.route = "title"
  /\ reply.request.sessionId \in deleted
  /\ reply.status = 404
  /\ sessionId_ # Empty

\* C13: GET /status is answered 200 with {ready: true, message: "ok"} when
\* no session is active and with {ready: false, message: "busy"} when one
\* is; a status reply says ready exactly when no session is active; and a
\* POST /session that arrives while no session is active is not refused:
\* its handler goes on to draw an id, and is answered 200 with the id that
\* becomes the active one.
C13_ReadyIffIdle ==
  [][/\ GetStatus
          => /\ reply'.status = 200
             /\ reply'.body.value =
                  IF sessionId_ = Empty THEN [ready |-> TRUE, message |-> "ok"]
                  ELSE [ready |-> FALSE, message |-> "busy"]
     /\ reply.request.route = "status"
          => (reply.body.value.ready <=> sessionId_ = Empty)
     /\ (PostSession /\ sessionId_ = Empty)
          => /\ reply' = NoReply
             /\ req' = req (+) SetToBag({CreateHandler})
     /\ RandomBytesDone
          => /\ reply'.request.route = "newSession"
             /\ reply'.status = 200
             /\ reply'.body.value.sessionId = sessionId_']_vars

\* A status request was just answered ready/ok by a server that has had a
\* session and released it.
C13_Witness ==
  /\ reply.request.route = "status"
  /\ reply.body.value = [ready |-> TRUE, message |-> "ok"]
  /\ \E s \in Ids : closeHook[s].state # "none"

\* The response variants other than Success.
ErrorResponses ==
  {SessionNotCreatedError, UnknownCommandError, InvalidArgumentError,
   InvalidSessionIdError, UnableToCaptureScreenError, UnknownError}

\* r is the wire form of one response variant: status and {value: payload}
\* of one and the same variant.
OnWire(r) ==
  \/ r.status = 200 /\ r.body = Wire(Success(r.body.value)).body
  \/ \E e \in ErrorResponses : r.status = e.httpStatusCode /\ r.body = Wire(e).body

\* C14: every reply written is the wire form of one response variant and
\* answers either the request that has just arrived or one suspended
\* handler, which is then gone; and a suspended handler goes away only by
\* writing one reply to its own request - whether it returned a response,
\* threw one, or threw anything else.
C14_OneWellFormedReply ==
  [][/\ reply' # NoReply
          => /\ OnWire(reply')
             /\ \/ req' = req
                \/ \E h \in BagToSet(req) :
                     h.request = reply'.request /\ req' = req (-) SetToBag({h})
     /\ req' # req
          => \/ reply' = NoReply /\ \E h \in BagToSet(req') : req' = req (+) SetToBag({h})
             \/ /\ reply' # NoReply
                /\ \E h \in BagToSet(req) :
                     h.request = reply'.request /\ req' = req (-) SetToBag({h})]_vars

\* A GET /shutdown whose hook threw was just answered 500 while another
\* handler is still suspended.
C14_Witness ==
  /\ reply.request.route = "shutdown"
  /\ settled = "throw"
  /\ reply.status = 500
  /\ reply.body = [value |-> [error |-> "unknown error"]]
  /\ BagCardinality(req) > 0

\* The status and body of a reply, without the request it answers.
OfReply(r) == [status |-> r.status, body |-> r.body]

\* C15: when the navigation hook or the shutdown hook throws something that
\* is not a response, the client receives exactly UnknownError (500); when a
\* hook or a method throws a response (the navigation hook, navigateTo() and
\* getTitle() on a wrong id, screenshot()), the client receives exactly that
\* response's status and payload.
C15_ThrownValuesOnTheWire ==
  [][/\ \A sessionId \in Ids, outcome \in NavigateOutcomes :
          (NavigateHookDone(sessionId, outcome) /\ outcome.how = "throw")
            => OfReply(reply') =
                 IF outcome.isResponse THEN Wire(outcome.response) ELSE Wire(UnknownError)
     /\ \A outcome \in HookOutcomes :
          (ShutdownHookDone(outcome) /\ outcome.how = "throw")
            => OfReply(reply') =
                 IF outcome.isResponse THEN Wire(outcome.response) ELSE Wire(UnknownError)
     /\ \A sessionId \in AllArgIds :
          /\ GetScreenshot(sessionId)
               => OfReply(reply') = Wire(UnableToCaptureScreenError)
          /\ (GetTitle(sessionId) /\ sessionId # sessionId_)
               => OfReply(reply') = Wire(InvalidSessionIdError)
          /\ (PostUrl(sessionId, TRUE) /\ sessionId # sessionId_)
               => OfReply(reply') = Wire(InvalidSessionIdError)]_vars

\* The navigation hook just threw a response and the client was sent it.
C15_Witness ==
  /\ reply.request.route = "navigate"
  /\ settled = "throw"
  /\ OfReply(reply) = Wire(InvalidSessionIdError)

\* C16: a request that matches no registered route is answered exactly
\* UnknownCommand (404), and changes neither the session, its timer, the
\* timers, the hook calls, the suspended handlers nor the listener.
C16_UnknownRouteIsUnknownCommand ==
  [][UnknownRoute
       => /\ reply'.request.route = "other"
          /\ reply'.status = 404
          /\ reply'.body = [value |-> [error |-> "unknown command"]]
          /\ UNCHANGED <<sessionId_, timeout_, timers, closeHook, req, listening>>]_vars

\* A request matching no route was just answered 404 while a session is
\* active and a handler is suspended on a backend hook.
C16_Witness ==
  /\ reply.request.route = "other"
  /\ reply.status = 404
  /\ sessionId_ # Empty
  /\ BagCardinality(req) > 0

\* A navigateToSingleSession() call has not settled: its request is stalled.
StalledNavigate == InFlight("navigateToSingleSession") > 0

\* C17: while a navigation hook call is stalled, the event loop still runs
\* every other request that arrives (status, title, close, create-session),
\* the continuation of every other await that settles, and the callback of
\* an expired idle timer; each of those requests is answered (at once, or
\* when its own await settles) and the stalled handler stays suspended.
C17_StalledHookBlocksOnlyItsRequest ==
  /\ [](StalledNavigate /\ reply = NoReply
          => /\ listening
                  => /\ ENABLED GetStatus
                     /\ \A s \in ArgIds : ENABLED GetTitle(s)
                     /\ \A route \in CloseRoutes, s \in ArgIds :
                          (HasFreeSlot \/ CloseSessionIgnores(s)) => ENABLED DeleteSession(route, s)
                     /\ (CreateSessionRefuses \/ (HasFreeSlot /\ IdsLeft)) => ENABLED PostSession
             /\ PendingCreates > 0 => ENABLED RandomBytesDone
             /\ \A s \in Ids :
                  closeHook[s].state = "running" => ENABLED CloseHookDone(s, Returned(EmptyObject))
             /\ \A h \in Handles :
                  (timers[h].state = "armed" /\ timers[h].remaining = 0) => ENABLED TimerFire(h))
  /\ [][StalledNavigate
          => /\ GetStatus => reply'.status = 200
             /\ \A s \in AllArgIds : GetTitle(s) => reply'.status \in {200, 404}
             /\ \A route \in CloseRoutes, s \in AllArgIds :
                  DeleteSession(route, s)
                    => \/ reply'.status = 200
                       \/ reply' = NoReply /\ closeHook'[s].state = "running"
             /\ PostSession => (reply'.status = 500 \/ PendingCreates' = PendingCreates + 1)
             /\ RandomBytesDone => reply'.status = 200
             /\ \A s \in Ids, outcome \in HookOutcomes :
                  (CloseHookDone(s, outcome) /\ CloseWaiters(s) # {}) => reply'.status = 200
             /\ (\/ GetStatus \/ PostSession \/ RandomBytesDone
                 \/ \E s \in AllArgIds : GetTitle(s)
                 \/ \E route \in CloseRoutes, s \in AllArgIds : DeleteSession(route, s)
                 \/ \E s \in Ids, outcome \in HookOutcomes : CloseHookDone(s, outcome)
                 \/ \E h \in Handles : TimerFire(h))
                  => InFlight("navigateToSingleSession")' = InFlight("navigateToSingleSession")]_vars

\* While the navigation hook of a session is stalled, the session was closed
\* by its idle timer, another was created, and a getTitle was just answered 200.
C17_Witness ==
  /\ StalledNavigate
  /\ reply.request.route = "title"
  /\ reply.status = 200
  /\ \E s \in Ids : closeHook[s] = Running("timeout")

\* C18: in every reachable state in which no session is active, no idle
\* timer is armed.
C18_NoArmedTimerWhenIdle ==
  sessionId_ = Empty => \A h \in Handles : timers[h].state # "armed"

\* C19: the listener stops only in the step in which a GET /shutdown
\* handler resumes from a shutdown() that completed; that step answers
\* 200 {}; and no session is active when the request has completed.
C19_ShutdownLeavesNoSession ==
  [][/\ (listening /\ ~listening')
          => /\ ShutdownHookDone(Returned(EmptyObject))
             /\ reply'.request.route = "shutdown"
     /\ ShutdownHookDone(Returned(EmptyObject))
          => /\ ~listening'
             /\ reply'.status = 200
             /\ reply'.body = [value |-> EmptyObject]
             /\ sessionId_' = Empty]_vars

\* C20: from the moment a POST /session has returned id s until a
\* closeSession() releases that session (on a DELETE, an idle timeout or a
\* shutdown), every getTitle carrying s is answered 200 and every navigateTo
\* (with url) carrying s reaches the navigation hook.
C20_ReturnedIdStaysValid ==
  [][\A s \in Ids :
       s \in Live
         => /\ GetTitle(s) => reply'.status = 200
            /\ PostUrl(s, TRUE)
                 => /\ reply' = NoReply
                    /\ req' = req (+) SetToBag({NavigateHandler(s)})]_vars

\* C21: between any two steps, this.sessionId_ is non-empty exactly when
\* this.timeout_ is non-null; and a navigateTo (with url) or getTitle
\* carrying the active id finds a timer to refresh: it is not answered
\* UnknownError (500).
C21_SessionIdIffTimer ==
  /\ [](sessionId_ # Empty <=> timeout_ # Null)
  /\ [][\A s \in Ids :
          s = sessionId_
            => /\ GetTitle(s) => reply'.status = 200
               /\ PostUrl(s, TRUE) => (reply' = NoReply /\ timers'[timeout_].state = "armed")]_vars

\* A session created after an earlier one was closed is active, has its
\* timer handle, and has been used by an accepted navigateTo or getTitle.
C21_Witness ==
  /\ sessionId_ # Empty
  /\ timeout_ # Null
  /\ used
  /\ \E s \in Ids : closeHook[s].state # "none"

\* C22: the close hook is invoked exactly once for each session that ends:
\* every session whose id was returned and is no longer the active one has
\* had closeSingleSession() called for it; the hook is called only for the
\* active session and never a second time for the same session; and a
\* DELETE, a timer callback or a shutdown that comes after the session was
\* released calls no hook.
C22_CloseHookOncePerSession ==
  /\ [](\A s \in Ids :
          (timers[s].state # "unused" /\ s # sessionId_) => closeHook[s].state # "none")
  /\ [][/\ \A s \in Ids :
             (closeHook'[s].state = "running" /\ closeHook[s].state # "running")
               => (closeHook[s].state = "none" /\ s = sessionId_)
        /\ \A route \in CloseRoutes, s \in Ids :
             (DeleteSession(route, s) /\ closeHook[s].state # "none")
               => (UNCHANGED closeHook /\ reply'.status = 200)
        /\ \A h \in Handles :
             (TimerFire(h) /\ sessionId_ = Empty) => UNCHANGED closeHook
        /\ (GetShutdown /\ sessionId_ = Empty) => UNCHANGED closeHook]_vars

====
